---------------------------- MODULE Spec2Model ----------------------------
(***************************************************************************)
(* A model of pycli.py: the streaming completion client with its retry     *)
(* loop, the extraction of a filename directive and a fenced block from a  *)
(* reply, the persistence of the artifact, and the confirm / execute /     *)
(* debug loop of handle_response, driven by main in one-shot and in        *)
(* interactive mode.                                                       *)
(*                                                                         *)
(* Text is a sequence of tokens.  A token is one character (backtick, "/", *)
(* " ", the newline NL, a letter) or an atom standing for a fixed run of   *)
(* characters that the program never looks inside (the literal            *)
(* "filename: " of the directive, a word of a command, a stderr text).     *)
(***************************************************************************)
EXTENDS Integers, Sequences, FiniteSets, TLC

\* ------------------------------------------------------------------ bounds
MaxTurns == 1          \* chat turns of the interactive loop
MaxLoads == 1          \* /load commands of the interactive loop
MaxDebugRounds == 1    \* accepted debug offers in one handle_response
MaxSegments == 7       \* pieces of a text handed to extract_code_block alone

\* --------------------------------------------------------------- constants
max_retries == 3       \* default of call_ollama_api_stream
InitialFileCounter == 1

NL == "\n"
BT == "<bt>"     \* one backtick character
FN == "filename: "
Whitespace == {" ", NL, "\t"}

\* ------------------------------------------------------------ option values
None == [some |-> FALSE, val |-> <<>>]
Some(v) == [some |-> TRUE, val |-> v]
TruthyNotNone(o) == o.some

\* Python truthiness of an Optional[str]: None and "" are both falsy.
Truthy(o) == o.some /\ o.val # <<>>

\* --------------------------------------------------------------- str methods
Min(S) == CHOOSE x \in S : \A y \in S : x <= y
Max(S) == CHOOSE x \in S : \A y \in S : x >= y

\* str.strip(): drop leading and trailing whitespace.
Strip(s) ==
    LET keep == {k \in 1..Len(s) : s[k] \notin Whitespace}
    IN  IF keep = {} THEN <<>> ELSE SubSeq(s, Min(keep), Max(keep))

LowerTok(t) ==
    CASE t = "Y" -> "y"
      [] t = "N" -> "n"
      [] t = "P" -> "p"
      [] t = "QUIT" -> "quit"
      [] t = "EXIT" -> "exit"
      [] OTHER -> t

\* str.lower()
Lower(s) == [k \in 1..Len(s) |-> LowerTok(s[k])]

\* ------------------------------------------------------- extract_code_block
FenceAt(s, k) ==
    /\ k >= 1
    /\ k + 2 <= Len(s)
    /\ s[k] = BT /\ s[k + 1] = BT /\ s[k + 2] = BT

\* re.search(r"filename: (.*?)\n", text): the leftmost "filename: " that is
\* followed, later on, by a newline; the group runs to the first newline.
FilenameMatch(s) ==
    LET starts == {k \in 1..Len(s) :
                     s[k] = FN /\ \E n \in (k + 1)..Len(s) : s[n] = NL}
    IN  IF starts = {} THEN None
        ELSE LET k == Min(starts)
                 n == Min({m \in (k + 1)..Len(s) : s[m] = NL})
             IN  Some(SubSeq(s, k + 1, n - 1))

CodeMatchGreedy(s) ==
    LET fences == {k \in 1..Len(s) : FenceAt(s, k)}
        newlines == {n \in 1..Len(s) : s[n] = NL}
        closes(n) == {m \in fences : m > n}
        tags(k) == {n \in newlines : n >= k + 3 /\ closes(n) # {}}
        starts == {k \in fences : tags(k) # {}}
    IN  IF starts = {} THEN [found |-> FALSE, g1 |-> <<>>, g2 |-> <<>>]
        ELSE LET k == Min(starts)
                 n == Min(tags(k))
                 m == Max(closes(n))
             IN  [found |-> TRUE,
                  g1 |-> SubSeq(s, k + 3, n - 1),
                  g2 |-> SubSeq(s, n + 1, m - 1)]

\* re.search of  fence (.*?) newline (.*?) fence  with re.DOTALL: the leftmost
\* opening fence that is followed by a newline and, after it, by a closing
\* fence; the lazy group 1 runs to the first such newline, the lazy group 2
\* to the first fence after that newline.
CodeMatch(s) ==
    LET fences == {k \in 1..Len(s) : FenceAt(s, k)}
        newlines == {n \in 1..Len(s) : s[n] = NL}
        closes(n) == {m \in fences : m > n}
        tags(k) == {n \in newlines : n >= k + 3 /\ closes(n) # {}}
        starts == {k \in fences : tags(k) # {}}
    IN  IF starts = {} THEN [found |-> FALSE, g1 |-> <<>>, g2 |-> <<>>]
        ELSE LET k == Min(starts)
                 n == Min(tags(k))
                 m == Min(closes(n))
             IN  [found |-> TRUE,
                  g1 |-> SubSeq(s, k + 3, n - 1),
                  g2 |-> SubSeq(s, n + 1, m - 1)]

DefaultLanguageBash == <<"b", "a", "s", "h">>

DefaultLanguage == <<"p", "y", "t", "h", "o", "n">>

extract_code_block(response_text) ==
    LET fm == FilenameMatch(response_text)
        filename == IF fm.some THEN Some(Strip(fm.val)) ELSE None
        cm == CodeMatch(response_text)
        tag == Lower(Strip(cm.g1))
    IN  IF cm.found
        THEN [filename |-> filename,
              language |-> Some(IF tag # <<>> THEN tag ELSE DefaultLanguage),
              code |-> Some(Strip(cm.g2))]
        ELSE [filename |-> filename, language |-> None, code |-> None]

\* ------------------------------------------------------------ path and disk
\* posixpath.dirname: the head up to the last "/", its trailing slashes
\* dropped unless it is made of slashes only.
dirname(p) ==
    LET slashes == {k \in 1..Len(p) : p[k] = "/"}
        head == IF slashes = {} THEN <<>> ELSE SubSeq(p, 1, Max(slashes))
        solid == {k \in 1..Len(head) : head[k] # "/"}
    IN  IF solid = {} THEN head ELSE SubSeq(head, 1, Max(solid))

\* str(n) of a natural number: its decimal digits
Digit(d) == <<"0", "1", "2", "3", "4", "5", "6", "7", "8", "9">>[d + 1]

RECURSIVE Decimal(_)
Decimal(n) == IF n < 10 THEN <<Digit(n)>> ELSE Append(Decimal(n \div 10), Digit(n % 10))

\* f"generated_py_script_{file_counter}.py"
GeneratedName(n) == <<"generated_py_script_">> \o Decimal(n) \o <<".py">>

\* The loop of lines 171-175: advance the counter past every generated name
\* that exists on disk.
RECURSIVE FirstFree(_, _)
FirstFree(counter, existing) ==
    IF GeneratedName(counter) \notin existing
    THEN counter
    ELSE FirstFree(counter + 1, existing)

\* The confirmation gates: confirm = input(...).strip().lower(), and the
\* flow goes on only if confirm == 'y'.
Normalise(answer) == Lower(Strip(answer))

\* a gate that lets everything but an explicit "n" through
AffirmativeUnlessNo(confirm) == confirm # <<"n">>

Affirmative(confirm) == confirm = <<"y">>

\* ----------------------------------------------------------------- messages
Msg(role, content) == [role |-> role, content |-> content]

SystemMessage == Msg("system", <<"You are a helpful assistant focused on Python programming.">>)

RunSystemMessage == Msg("system", <<"Provide a shell command to run the given file.">>)

\* run_messages of lines 189-192
RunMessages(fname, lang) ==
    << RunSystemMessage,
       Msg("user", <<"Command to run '">> \o fname \o <<"' in ">> \o lang \o <<"?">>) >>

\* f"Command failed: {e.stderr}\nProvide corrected command."
DebugContent(err) == <<"Command failed: ">> \o err \o <<NL, "Provide corrected command.">>

\* a correction request that leaves the captured stderr out
DebugMessagesWithoutStderr(msgs, err) == msgs \o <<Msg("user", DebugContent(<<>>))>>

\* debug_messages of line 217: a new list, the main conversation is not changed
DebugMessages(msgs, err) == msgs \o <<Msg("user", DebugContent(err))>>

AfterDebugReplyReplacing(msgs, err, reply) ==
    Append(SubSeq(msgs, 1, Len(msgs) - 1), Msg("assistant", reply))

\* The reply of a debug round kept in the main conversation (line 221).
AfterDebugReply(msgs, err, reply) == Append(msgs, Msg("assistant", reply))

\* ------------------------------------------------------------------- inputs
\* Replies of the model: empty, prose, a named artifact without and with a
\* directory, two unnamed blocks (the first without a tag), an empty block.
ReplyEmpty == <<>>
ReplyProse == <<"ok">>
ReplyNamedFlat ==
    <<FN, "r", ".", "p", "y", NL, BT, BT, BT, "p", "y", NL, "c1", NL, BT, BT, BT>>
ReplyNamedDir ==
    <<FN, " ", "d", "/", "a", " ", NL, BT, BT, BT, " ", "P", "Y", NL, "c1", NL, BT, BT, BT>>
ReplyUnnamed ==
    <<"run", NL, BT, BT, BT, NL, "c2", NL, BT, BT, BT, BT, BT, BT, "sh", NL, "c3", BT, BT, BT>>
ReplyEmptyBlock == <<BT, BT, BT, NL, " ", BT, BT, BT>>

Replies ==
    {ReplyEmpty, ReplyProse, ReplyNamedFlat, ReplyNamedDir, ReplyUnnamed,
     ReplyEmptyBlock}

PartialDeltas == {<<"par">>}
Answers == {<<"y">>, <<" ", "Y", NL>>, <<"n">>, <<>>}
UserInputs == {<<"exit">>, <<" ", "QUIT">>, <<"/load">>, <<"q">>}
Stderrs == {<<"e1">>, <<"e2">>}
StoredHistory == <<Msg("user", <<"old">>)>>
InitialDisks == {{}, {GeneratedName(1)}}

\* -------------------------------------------------------------------- state
VARIABLES
    pc,            \* position of the single thread of control
    one_shot,      \* args.prompt is set
    messages,      \* the main conversation
    history_file,  \* the messages stored in chat_history.json
    file_counter,  \* the global of line 12
    files,         \* regular files on disk: path -> content
    dirs,          \* directories created by os.makedirs
    ai_response, filename, language, code, run_command,
                   \* locals of handle_response
    stderr,        \* e.stderr, bound while the except clause of line 212 runs
    api,           \* locals of the running call_ollama_api_stream
    ret,           \* value returned by call_ollama_api_stream, until the caller
                   \* has tested it
    exception,     \* the uncaught exception that ended the process, if any
    gate,          \* the last confirmation: which prompt, what it showed, and
                   \* run_confirm / confirm / debug_confirm
    executed,      \* commands run by subprocess.run in the current flow
    rounds,        \* accepted debug offers in the current flow
    returncode,    \* exit status of the last subprocess.run of the current flow
    writes,        \* paths written with open(..., "w") in the current flow
    turns, loads   \* chat turns and /load commands so far

hr_locals == <<ai_response, filename, language, code, run_command, stderr>>
disk == <<files, dirs, file_counter>>
session == <<one_shot, history_file, turns, loads>>
observed == <<gate, executed, rounds, returncode, writes>>
vars == <<pc, exception, messages, hr_locals, disk, session, api, ret, observed>>

NoCall == [purpose |-> "none", msgs |-> <<>>, attempt |-> 0, sent |-> 0,
           full_response |-> <<>>]
NoGate == [kind |-> "none", shown |-> <<>>, confirm |-> <<>>]

Init ==
    /\ one_shot \in BOOLEAN
    /\ history_file = StoredHistory
    /\ messages = <<SystemMessage>>
    /\ pc = IF one_shot THEN "one_shot" ELSE "prompt"
    /\ exception = "none"
    /\ file_counter = InitialFileCounter
    /\ \E d \in InitialDisks : files = [p \in d |-> <<"old">>]
    /\ dirs = {}
    /\ ai_response = None /\ filename = None /\ language = None
    /\ code = None /\ run_command = None /\ stderr = None
    /\ api = NoCall
    /\ ret = None
    /\ gate = NoGate
    /\ executed = <<>>
    /\ rounds = 0
    /\ returncode = "none"
    /\ writes = <<>>
    /\ turns = 0
    /\ loads = 0

\* --------------------------------------------------- call_ollama_api_stream
\* Entering the function: data is built once from the messages (lines 16-20).
Call(purpose, msgs) ==
    [purpose |-> purpose, msgs |-> msgs, attempt |-> 0, sent |-> 0,
     full_response |-> <<>>]

ReturnPc(purpose) ==
    CASE purpose = "main" -> "main_ret"
      [] purpose = "run" -> "run_ret"
      [] purpose = "debug" -> "debug_ret"

BufferKept(previous) == previous

\* line 27: the buffer of an attempt starts empty
BufferAtStart(previous) == <<>>

\* giving up one attempt early
LastAttemptEarly(attempt) == attempt = max_retries - 2

\* line 38: the attempt after which the except clause gives up
LastAttempt(attempt) == attempt = max_retries - 1

RECURSIVE Concat(_)
Concat(deltas) ==
    IF deltas = <<>> THEN <<>> ELSE Head(deltas) \o Concat(Tail(deltas))

\* lines 36-39: a RequestException ends the attempt; the last one returns None
Except(next_api) ==
    IF LastAttempt(api.attempt)
    THEN /\ api' = NoCall
         /\ ret' = None
         /\ pc' = ReturnPc(api.purpose)
    ELSE /\ api' = [next_api EXCEPT !.attempt = api.attempt + 1]
         /\ ret' = ret
         /\ pc' = pc

\* requests.post or raise_for_status raises: nothing was streamed
ApiConnectFail ==
    /\ pc = "api"
    /\ UNCHANGED exception
    /\ Except([api EXCEPT !.sent = api.sent + 1])
    /\ UNCHANGED <<messages, hr_locals, disk, session, observed>>

\* the stream breaks after some deltas were appended to the buffer
ApiStreamFail ==
    /\ pc = "api"
    /\ UNCHANGED exception
    /\ \E delta \in PartialDeltas :
         Except([api EXCEPT !.sent = api.sent + 1,
                            !.full_response = BufferAtStart(api.full_response) \o delta])
    /\ UNCHANGED <<messages, hr_locals, disk, session, observed>>

\* the stream is consumed to its end: the buffer is returned (line 35)
ApiSuccess ==
    /\ pc = "api"
    /\ UNCHANGED exception
    /\ \E reply \in Replies : \E cut \in {0, Len(reply) \div 2} :
         LET deltas == <<SubSeq(reply, 1, cut), SubSeq(reply, cut + 1, Len(reply))>>
         IN  ret' = Some(BufferAtStart(api.full_response) \o Concat(deltas))
    /\ api' = NoCall
    /\ pc' = ReturnPc(api.purpose)
    /\ UNCHANGED <<messages, hr_locals, disk, session, observed>>

\* --------------------------------------------------------------------- main
\* lines 105-118: the one-shot prompt is appended and sent
OneShot ==
    /\ pc = "one_shot"
    /\ UNCHANGED exception
    /\ messages' = Append(messages, Msg("user", <<"q">>))
    /\ api' = Call("main", messages')
    /\ pc' = "api"
    /\ UNCHANGED <<hr_locals, disk, session, ret, observed>>

\* lines 126-129 (without --save-history)
InputExit ==
    /\ pc = "prompt"
    /\ UNCHANGED exception
    /\ \E input \in UserInputs : Lower(Strip(input)) \in {<<"exit">>, <<"quit">>}
    /\ pc' = "exited"
    /\ UNCHANGED <<messages, hr_locals, disk, session, api, ret, observed>>

\* lines 133-138
InputLoad ==
    /\ pc = "prompt"
    /\ UNCHANGED exception
    /\ loads < MaxLoads
    /\ \E input \in UserInputs :
         /\ Lower(Strip(input)) \notin {<<"exit">>, <<"quit">>}
         /\ Strip(input) = <<"/load">>
    /\ messages' = messages \o history_file
    /\ loads' = loads + 1
    /\ UNCHANGED <<pc, hr_locals, disk, one_shot, history_file, turns,
                   api, ret, observed>>

\* lines 140-153
InputChat ==
    /\ pc = "prompt"
    /\ UNCHANGED exception
    /\ turns < MaxTurns
    /\ \E input \in UserInputs :
         /\ Lower(Strip(input)) \notin {<<"exit">>, <<"quit">>}
         /\ Strip(input) # <<"/load">>
         /\ messages' = Append(messages, Msg("user", Strip(input)))
    /\ turns' = turns + 1
    /\ api' = Call("main", messages')
    /\ pc' = "api"
    /\ UNCHANGED <<hr_locals, disk, one_shot, history_file, loads,
                   ret, observed>>

\* lines 119-121 and 154: no reply, or an empty one
MainNoResponse ==
    /\ pc = "main_ret"
    /\ UNCHANGED exception
    /\ ~Truthy(ret)
    /\ pc' = IF one_shot THEN "exited" ELSE "prompt"
    /\ UNCHANGED <<messages, hr_locals, disk, session, api, observed>>
    /\ ret' = None

\* The conversation handed to handle_response: interactive mode appends the
\* reply first (line 155), one-shot mode does not (line 120).
ConversationAtHandle(msgs, reply) ==
    IF one_shot THEN msgs ELSE Append(msgs, Msg("assistant", reply))

\* lines 119-120 and 154-156
MainHandle ==
    /\ pc = "main_ret"
    /\ UNCHANGED exception
    /\ Truthy(ret)
    /\ messages' = ConversationAtHandle(messages, ret.val)
    /\ ai_response' = ret
    /\ pc' = "hr_entry"
    /\ UNCHANGED <<filename, language, code, run_command, stderr, disk, session,
                   api, observed>>
    /\ ret' = None

\* ---------------------------------------------------------- handle_response
\* lines 161-163: nothing to do without a non-empty code body
HR_NoCode ==
    /\ pc = "hr_entry"
    /\ UNCHANGED exception
    /\ ~Truthy(extract_code_block(ai_response.val).code)
    /\ pc' = "hr_done"
    /\ UNCHANGED <<messages, hr_locals, disk, session, api, ret, observed>>

\* lines 161-175: extraction, language default, automated filename
HR_Name ==
    /\ pc = "hr_entry"
    /\ UNCHANGED exception
    /\ LET e == extract_code_block(ai_response.val)
           n == FirstFree(file_counter, DOMAIN files)
       IN  /\ Truthy(e.code)
           /\ code' = e.code
           /\ language' = IF Truthy(e.language) THEN e.language ELSE Some(DefaultLanguage)
           /\ IF Truthy(e.filename)
              THEN filename' = e.filename /\ file_counter' = file_counter
              ELSE filename' = Some(GeneratedName(n)) /\ file_counter' = n
    /\ pc' = "hr_save"
    /\ UNCHANGED <<messages, ai_response, run_command, stderr, files, dirs, session,
                   api, ret, observed>>

\* os.makedirs(name, exist_ok=True) raises FileNotFoundError on the empty
\* path, whatever the disk holds.
MakedirsRaises(name) == name = <<>>

\* line 178 raises (the empty dirname, or an I/O error of the disk); nothing
\* catches it in handle_response or main, the process ends with a traceback
HR_MakedirsError ==
    /\ pc = "hr_save"
    /\ exception' = IF MakedirsRaises(dirname(filename.val))
                    THEN "FileNotFoundError"
                    ELSE "OSError"
    /\ pc' = "crashed"
    /\ UNCHANGED <<messages, hr_locals, disk, session, api, ret, observed>>

\* lines 179-180 raise after the directory was made
HR_WriteError ==
    /\ pc = "hr_save"
    /\ ~MakedirsRaises(dirname(filename.val))
    /\ dirs' = dirs \cup {dirname(filename.val)}
    /\ exception' = "OSError"
    /\ pc' = "crashed"
    /\ UNCHANGED <<messages, hr_locals, files, file_counter, session, api, ret, observed>>

\* lines 178-181
HR_Saved ==
    /\ pc = "hr_save"
    /\ UNCHANGED exception
    /\ ~MakedirsRaises(dirname(filename.val))
    /\ dirs' = dirs \cup {dirname(filename.val)}
    /\ files' = (filename.val :> code.val) @@ files
    /\ writes' = Append(writes, filename.val)
    /\ pc' = "hr_run_confirm"
    /\ UNCHANGED <<messages, hr_locals, file_counter, session, api, ret,
                   gate, executed, rounds, returncode>>

MessagesWithRunRequest(msgs, fname, lang) ==
    Append(msgs, RunMessages(fname, lang)[2])

\* lines 189-194: run_messages is a list of its own, the main conversation
\* is not touched by the run-command request
MessagesAfterRunRequest(msgs, fname, lang) == msgs

\* lines 184-194
HR_RunConfirm ==
    /\ pc = "hr_run_confirm"
    /\ UNCHANGED exception
    /\ \E answer \in Answers :
         /\ gate' = [kind |-> "run", shown |-> language.val, confirm |-> Normalise(answer)]
         /\ IF Affirmative(Normalise(answer))
            THEN /\ api' = Call("run", RunMessages(filename.val, language.val))
                 /\ messages' = MessagesAfterRunRequest(messages, filename.val,
                                                        language.val)
                 /\ pc' = "api"
            ELSE /\ api' = api
                 /\ messages' = messages
                 /\ pc' = "hr_done"
    /\ UNCHANGED <<hr_locals, disk, session, ret, executed, rounds, returncode, writes>>

\* lines 195-201: no reply, or no command in it
HR_NoRunCommand ==
    /\ pc = "run_ret"
    /\ UNCHANGED exception
    /\ Truthy(ret) => ~Truthy(extract_code_block(ret.val).code)
    /\ pc' = "hr_done"
    /\ UNCHANGED <<messages, hr_locals, disk, session, api, observed>>
    /\ ret' = None

\* lines 195-203
HR_RunCommand ==
    /\ pc = "run_ret"
    /\ UNCHANGED exception
    /\ Truthy(ret)
    /\ run_command' = extract_code_block(ret.val).code
    /\ Truthy(run_command')
    /\ pc' = "hr_exec_confirm"
    /\ UNCHANGED <<messages, ai_response, filename, language, code, stderr, disk,
                   session, api, observed>>
    /\ ret' = None

\* lines 205-207
HR_ExecConfirm ==
    /\ pc = "hr_exec_confirm"
    /\ UNCHANGED exception
    /\ \E answer \in Answers :
         /\ gate' = [kind |-> "exec", shown |-> run_command.val, confirm |-> Normalise(answer)]
         /\ pc' = IF Affirmative(Normalise(answer)) THEN "hr_execute" ELSE "hr_done"
    /\ UNCHANGED <<messages, hr_locals, disk, session, api, ret, executed, rounds,
                   returncode, writes>>

PcWithoutBreak == "hr_exec_confirm"

\* line 211: the break after a successful run leaves the loop
PcAfterSuccess == "hr_done"

\* lines 209-211: exit status zero
HR_ExecuteSuccess ==
    /\ pc = "hr_execute"
    /\ UNCHANGED exception
    /\ executed' = Append(executed, run_command.val)
    /\ returncode' = "zero"
    /\ pc' = PcAfterSuccess
    /\ UNCHANGED <<messages, hr_locals, disk, session, api, ret, gate, rounds, writes>>

\* lines 209, 212-213: CalledProcessError with the captured stderr
HR_ExecuteFail ==
    /\ pc = "hr_execute"
    /\ UNCHANGED exception
    /\ executed' = Append(executed, run_command.val)
    /\ \E err \in Stderrs : stderr' = Some(err)
    /\ returncode' = "nonzero"
    /\ pc' = "hr_debug_confirm"
    /\ UNCHANGED <<messages, ai_response, filename, language, code, run_command,
                   disk, session, api, ret, gate, rounds, writes>>

\* lines 214-219
HR_DebugConfirm ==
    /\ pc = "hr_debug_confirm"
    /\ UNCHANGED exception
    /\ \E answer \in Answers :
         /\ Affirmative(Normalise(answer)) => rounds < MaxDebugRounds
         /\ gate' = [kind |-> "debug", shown |-> <<>>, confirm |-> Normalise(answer)]
         /\ IF Affirmative(Normalise(answer))
            THEN /\ api' = Call("debug", DebugMessages(messages, stderr.val))
                 /\ rounds' = rounds + 1
                 /\ pc' = "api"
            ELSE /\ api' = api
                 /\ rounds' = rounds
                 /\ pc' = "hr_done"
    /\ UNCHANGED <<messages, hr_locals, disk, session, ret, executed, returncode, writes>>

\* lines 220, 204: a falsy debug_response (None or "") skips the body of the
\* if; the loop goes round with run_command as it was
HR_DebugNoResponse ==
    /\ pc = "debug_ret"
    /\ UNCHANGED exception
    /\ ~Truthy(ret)
    /\ stderr' = None
    /\ pc' = "hr_exec_confirm"
    /\ UNCHANGED <<messages, ai_response, filename, language, code, run_command,
                   disk, session, api, observed>>
    /\ ret' = None

KeptWhole(e) == e

\* line 222: of the correction reply only the code body is kept, as the new
\* run_command; its filename and its language are dropped, so nothing of it
\* is saved
KeptFromCorrection(e) == [e EXCEPT !.filename = None, !.language = None]

\* lines 220-225
HR_DebugResponse ==
    /\ pc = "debug_ret"
    /\ UNCHANGED exception
    /\ Truthy(ret)
    /\ messages' = AfterDebugReply(messages, stderr.val, ret.val)
    /\ LET kept == KeptFromCorrection(extract_code_block(ret.val))
       IN  /\ run_command' = kept.code
           /\ IF Truthy(kept.filename) /\ Truthy(kept.code)
              THEN /\ files' = (kept.filename.val :> kept.code.val) @@ files
                   /\ writes' = Append(writes, kept.filename.val)
              ELSE /\ files' = files
                   /\ writes' = writes
    /\ stderr' = None
    /\ pc' = IF Truthy(run_command') THEN "hr_exec_confirm" ELSE "hr_done"
    /\ UNCHANGED <<ai_response, filename, language, code, dirs, file_counter, session,
                   api, gate, executed, rounds, returncode>>
    /\ ret' = None

\* handle_response returns to main: lines 121 and 124
HR_Return ==
    /\ pc = "hr_done"
    /\ UNCHANGED exception
    /\ pc' = IF one_shot THEN "exited" ELSE "prompt"
    /\ ai_response' = None /\ filename' = None /\ language' = None
    /\ code' = None /\ run_command' = None /\ stderr' = None
    /\ gate' = NoGate /\ executed' = <<>> /\ rounds' = 0
    /\ returncode' = "none" /\ writes' = <<>>
    /\ UNCHANGED <<messages, disk, session, api, ret>>

Next ==
    \/ ApiConnectFail \/ ApiStreamFail \/ ApiSuccess
    \/ OneShot \/ InputExit \/ InputLoad \/ InputChat
    \/ MainNoResponse \/ MainHandle
    \/ HR_NoCode \/ HR_Name
    \/ HR_MakedirsError \/ HR_WriteError \/ HR_Saved
    \/ HR_RunConfirm \/ HR_NoRunCommand \/ HR_RunCommand
    \/ HR_ExecConfirm \/ HR_ExecuteSuccess \/ HR_ExecuteFail
    \/ HR_DebugConfirm \/ HR_DebugNoResponse \/ HR_DebugResponse
    \/ HR_Return

Spec == Init /\ [][Next]_vars

\* ------------------------------------------------ extract_code_block alone
\* The function applied to texts of its own (lines 50-60), as handle_response
\* applies it at line 162: the texts are all concatenations of at most
\* MaxSegments pieces, a piece being a fence, one backtick, a newline, an
\* upper-case letter or a blank.
Segments == {<<BT, BT, BT>>, <<BT>>, <<NL>>, <<"P">>, <<" ">>}

RECURSIVE TextsOf(_)
TextsOf(n) ==
    IF n = 0 THEN {<<>>}
    ELSE LET shorter == TextsOf(n - 1)
         IN  shorter \cup {t \o g : t \in shorter, g \in Segments}

InitExtract ==
    /\ one_shot = TRUE
    /\ history_file = StoredHistory
    /\ messages = <<SystemMessage>>
    /\ pc = "text"
    /\ exception = "none"
    /\ file_counter = InitialFileCounter
    /\ files = <<>>
    /\ dirs = {}
    /\ ai_response \in {Some(t) : t \in TextsOf(MaxSegments)}
    /\ filename = None /\ language = None
    /\ code = None /\ run_command = None /\ stderr = None
    /\ api = NoCall
    /\ ret = None
    /\ gate = NoGate
    /\ executed = <<>>
    /\ rounds = 0
    /\ returncode = "none"
    /\ writes = <<>>
    /\ turns = 0
    /\ loads = 0

\* line 162: filename, language, code = extract_code_block(ai_response)
Extract ==
    /\ pc = "text"
    /\ LET e == extract_code_block(ai_response.val)
       IN  /\ filename' = e.filename
           /\ language' = e.language
           /\ code' = e.code
    /\ pc' = "extracted"
    /\ UNCHANGED <<exception, messages, ai_response, run_command, stderr, disk,
                   session, api, ret, observed>>

NextExtract == Extract

SpecExtract == InitExtract /\ [][NextExtract]_vars

\* ================================================================== claims
\* A step of call_ollama_api_stream that posts a request.
RequestStep == pc = "api" /\ (api' = NoCall \/ api'.sent = api.sent + 1)
\* A step that runs a shell command.
ExecutionStep == executed' # executed /\ executed' # <<>>

\* C1: every shell execution of a command c is immediately preceded by an
\* execute-confirmation prompt that displayed exactly c and was answered
\* 'y' (after trimming and lower-casing); nothing else is ever executed.
C1_ExecuteOnlyConfirmed ==
    [][ /\ pc' = "hr_execute" =>
             /\ pc = "hr_exec_confirm"
             /\ gate'.kind = "exec"
             /\ gate'.shown = run_command'.val
             /\ gate'.confirm = <<"y">>
        /\ ExecutionStep =>
             /\ pc = "hr_execute"
             /\ gate.kind = "exec" /\ gate.confirm = <<"y">>
             /\ executed' = Append(executed, gate.shown) ]_vars

C1_Witness ==
    /\ pc = "hr_done"
    /\ gate.kind = "exec" /\ gate.confirm = <<"y">>
    /\ executed = <<gate.shown>>

\* C2: at the run, execute and debug confirmations, any answer other than
\* 'y' ends the flow: the answering step and every later step of the flow
\* post no request, run no command and leave the main conversation alone.
C2_DeclineEndsFlow ==
    [][ /\ (gate'.kind # "none" /\ gate'.confirm # <<"y">>) =>
             /\ pc' = "hr_done"
             /\ api' = NoCall
             /\ ~RequestStep /\ ~ExecutionStep
             /\ messages' = messages
        /\ (gate.kind # "none" /\ gate.confirm # <<"y">>) =>
             /\ pc = "hr_done" /\ pc' \in {"prompt", "exited"}
             /\ gate' = NoGate
             /\ ~RequestStep /\ ~ExecutionStep
             /\ messages' = messages ]_vars

C2_Witness ==
    /\ pc = "hr_done"
    /\ gate.kind = "debug" /\ gate.confirm = <<>>
    /\ executed # <<>>

\* C3: call_ollama_api_stream returns the failure signal after exactly
\* max_retries failed requests, and returns the reply of attempt k after
\* exactly k requests; it never posts more than max_retries requests.
C3_RetryCount ==
    [][ pc = "api" =>
          /\ api.sent = api.attempt
          /\ api.sent < max_retries
          /\ pc' # "api" =>
               IF ret'.some
               THEN api.sent + 1 <= max_retries
               ELSE api.sent + 1 = max_retries ]_vars

C3_Witness == pc = "run_ret" /\ ~ret.some

\* C4: after an accepted debug offer whose completion returns a reply, the
\* main conversation has grown by the synthetic user correction request
\* (with the captured stderr) followed by the assistant's correction reply.
C4_DebugAppendsRequestAndReply ==
    [][ (pc = "debug_ret" /\ Truthy(ret) /\ pc' # "debug_ret") =>
          messages' = messages \o
              << Msg("user", DebugContent(stderr.val)),
                 Msg("assistant", ret.val) >> ]_vars

\* C5: after an accepted debug offer, a correction reply without a fenced
\* block (an empty reply included) ends the flow: no further execute
\* confirmation, no further execution.
C5_NoBlockEndsFlow ==
    [][ (pc = "debug_ret" /\ ret.some /\ ~CodeMatch(ret.val).found
           /\ pc' # "debug_ret") =>
          pc' = "hr_done" ]_vars

\* C6: the command offered at the execute confirmation after a debug round
\* is the one extracted from that round's correction reply; after a Failure
\* signal the command that failed is not offered again.
C6_OfferedCommandIsFromReply ==
    [][ (pc = "debug_ret" /\ pc' = "hr_exec_confirm") =>
          /\ ret.some
          /\ Truthy(extract_code_block(ret.val).code)
          /\ run_command' = extract_code_block(ret.val).code ]_vars

\* C7: a reply with a non-empty fenced block and a filename directive, with
\* or without a directory in the name, is persisted at the directive's
\* trimmed value (the disk itself reporting no I/O error).
C7_DirectiveIsPersistedPath ==
    [][ (/\ pc = "hr_save" /\ pc' # "hr_save"
         /\ Truthy(extract_code_block(ai_response.val).filename)
         /\ exception' # "OSError") =>
          /\ pc' = "hr_run_confirm"
          /\ filename.val = Strip(FilenameMatch(ai_response.val).val)
          /\ filename.val \in DOMAIN files'
          /\ files'[filename.val] = code.val ]_vars

\* C8: a reply with a fenced block and no filename directive is persisted
\* under generated_py_script_<n>.py, n the first index from the counter on
\* whose file does not exist, and no existing file is overwritten (the
\* disk itself reporting no I/O error).
C8_AutoNameIsPersisted ==
    [][ (/\ pc = "hr_save" /\ pc' # "hr_save"
         /\ ~Truthy(extract_code_block(ai_response.val).filename)
         /\ exception' # "OSError") =>
          /\ pc' = "hr_run_confirm"
          /\ filename.val = GeneratedName(file_counter)
          /\ filename.val \notin DOMAIN files
          /\ DOMAIN files' = DOMAIN files \cup {filename.val}
          /\ files'[filename.val] = code.val
          /\ \A f \in DOMAIN files : files'[f] = files[f] ]_vars

\* C9: an I/O error while creating the directories or writing the file does
\* not end an interactive session: it goes on to the next user prompt.
C9_SessionSurvivesIoError ==
    (~one_shot /\ exception = "OSError") => pc # "crashed"

\* C10: every accepted debug round sends the whole main conversation, in
\* order, followed by one user message that contains the stderr of the
\* execution that just failed.
C10_DebugRequestCarriesStderr ==
    (pc = "api" /\ api.purpose = "debug") =>
        /\ stderr.some
        /\ gate.kind = "debug" /\ gate.confirm = <<"y">>
        /\ api.msgs = messages \o
             << [role |-> "user",
                 content |-> <<"Command failed: ">> \o stderr.val
                               \o <<NL, "Provide corrected command.">>] >>

C10_Witness ==
    /\ pc = "api" /\ api.purpose = "debug"
    /\ api.sent = 2
    /\ stderr = Some(<<"e2">>)

IsPrefix(s, t) == Len(s) <= Len(t) /\ SubSeq(t, 1, Len(s)) = s

\* the steps of the run-command exchange: the run confirmation, the requests
\* of the call at line 194 and the test of what it returned
InRunExchange ==
    \/ pc = "hr_run_confirm"
    \/ pc = "api" /\ api.purpose = "run"
    \/ pc = "run_ret"

\* C11: the run-command exchange leaves the main conversation unchanged: it
\* is the same before the run confirmation and at the first
\* execute-confirmation prompt, whatever the exchange returned.
C11_RunExchangeKeepsConversation ==
    [][ InRunExchange => messages' = messages ]_vars

C11_Witness ==
    /\ pc = "hr_exec_confirm"
    /\ gate.kind = "run" /\ gate.confirm = <<"y">>
    /\ rounds = 0 /\ executed = <<>>
    /\ Len(messages) >= 3

\* the fenced block of a text, read off the text itself: the first triple
\* backtick, the first newline after it, the first triple backtick after
\* that newline
Fences(s) ==
    {k \in 1..(Len(s) - 2) : s[k] = BT /\ s[k + 1] = BT /\ s[k + 2] = BT}

TagEnd(s) ==
    LET nls == {n \in 1..Len(s) : s[n] = NL /\ n >= Min(Fences(s)) + 3}
    IN  IF Fences(s) = {} \/ nls = {} THEN 0 ELSE Min(nls)

BlockClose(s) ==
    LET cl == {m \in Fences(s) : m > TagEnd(s)}
    IN  IF TagEnd(s) = 0 \/ cl = {} THEN 0 ELSE Min(cl)

HasBlock(s) == BlockClose(s) # 0

BlockTag(s) == SubSeq(s, Min(Fences(s)) + 3, TagEnd(s) - 1)

BlockBody(s) == SubSeq(s, TagEnd(s) + 1, BlockClose(s) - 1)

IsBlank(s) == \A k \in 1..Len(s) : s[k] \in Whitespace

\* what the run-command exchange returned holds no command: the failure
\* signal, an empty reply, a reply without fenced block, a block of blanks
NoRunCommandIn(r) ==
    \/ ~r.some
    \/ r.val = <<>>
    \/ ~HasBlock(r.val)
    \/ IsBlank(BlockBody(r.val))

\* C12: when the run-command exchange yields no command, the flow ends
\* there: no execute-confirmation prompt, no shell execution, no request.
C12_NoRunCommandAborts ==
    [][ (pc = "run_ret" /\ NoRunCommandIn(ret)) =>
            /\ pc' = "hr_done"
            /\ gate' = gate
            /\ ~ExecutionStep
            /\ api' = NoCall
            /\ returncode' = "none" ]_vars

C12_Witness ==
    /\ pc = "hr_done"
    /\ gate.kind = "run" /\ gate.confirm = <<"y">>
    /\ executed = <<>>
    /\ writes # <<>>

\* C13: an execution that exits with status zero ends the flow: the step
\* that follows it is the return of handle_response, with no confirmation
\* prompt, request, execution or change of the conversation in between.
C13_SuccessTerminates ==
    [][ /\ (returncode' = "zero" /\ returncode # "zero") =>
               (pc' = "hr_done" /\ messages' = messages)
        /\ returncode = "zero" =>
               /\ pc = "hr_done"
               /\ pc' \in {"prompt", "exited"}
               /\ messages' = messages
               /\ gate' = NoGate
               /\ executed' = <<>>
               /\ api' = NoCall ]_vars

C13_Witness ==
    /\ pc = "hr_done"
    /\ returncode = "zero"
    /\ rounds = 1 /\ Len(executed) = 2

\* C14: the main conversation only grows: over every step of a session the
\* conversation before the step is a prefix of the conversation after it.
C14_ConversationOnlyGrows ==
    [][ IsPrefix(messages, messages') ]_vars

C14_Witness ==
    /\ loads = 1 /\ turns = 1
    /\ pc = "prompt"
    /\ Len(messages) >= 5
    /\ messages[Len(messages)] = StoredHistory[Len(StoredHistory)]

\* C15: one flow writes at most one file, the write comes before the run
\* confirmation, and no debug round writes a file, also when the correction
\* reply carries a filename directive and a fenced block.
C15_OneWritePerFlow ==
    [][ /\ Len(writes') <= 1
        /\ (writes' # writes /\ writes' # <<>>) =>
               (pc = "hr_save" /\ gate = NoGate /\ rounds = 0)
        /\ files' # files => (writes' # writes /\ writes' # <<>>) ]_vars

C15_Witness ==
    /\ pc = "hr_exec_confirm"
    /\ rounds = 1
    /\ messages[Len(messages)] = Msg("assistant", ReplyNamedDir)
    /\ Len(writes) = 1

\* the text that follows the closing fence of the first block
AfterBlock(s) == SubSeq(s, BlockClose(s) + 3, Len(s))

\* the text cut after the closing fence of the first block
UpToBlock(s) == SubSeq(s, 1, BlockClose(s) + 2)

C17_LanguageOfTag ==
    pc = "extracted" =>
        IF HasBlock(ai_response.val)
        THEN language =
                 Some(IF IsBlank(BlockTag(ai_response.val))
                      THEN <<"p", "y", "t", "h", "o", "n">>
                      ELSE Lower(Strip(BlockTag(ai_response.val))))
        ELSE language = None /\ code = None

C17_Witness ==
    /\ pc = "extracted"
    /\ HasBlock(ai_response.val)
    /\ BlockTag(ai_response.val) = <<" ", " ">>
    /\ language = Some(<<"p", "y", "t", "h", "o", "n">>)
    /\ code = Some(<<"P">>)

\* C18: in one flow every execution after the first follows a failed
\* execution, an accepted debug offer for that failure and a fresh
\* affirmative execute confirmation, in that order, so the executions
\* never outnumber the accepted debug offers by more than one; a debug
\* offer is made only after a non-zero exit.
C18_ExecutionsFollowDebugRounds ==
    [][ /\ Len(executed') <= 1 + rounds'
        /\ ExecutionStep =>
               /\ Len(executed) = rounds
               /\ gate.kind = "exec" /\ gate.confirm = <<"y">>
               /\ executed # <<>> => returncode = "nonzero"
        /\ rounds' > rounds =>
               /\ pc = "hr_debug_confirm"
               /\ returncode = "nonzero"
               /\ Len(executed) = rounds + 1
        /\ pc' = "hr_debug_confirm" =>
               (ExecutionStep /\ returncode' = "nonzero") ]_vars

C18_Witness ==
    /\ pc = "hr_debug_confirm"
    /\ Len(executed) = 2
    /\ rounds = 1
    /\ returncode = "nonzero"

\* C19: when an attempt of call_ollama_api_stream succeeds after earlier
\* attempts broke part-way, the returned text is the concatenation of the
\* deltas of the succeeding attempt alone: one of the replies, without the
\* deltas of the broken attempts in front.
C19_ReturnsLastAttemptOnly ==
    [][ (pc = "api" /\ api.full_response # <<>> /\ pc' # "api" /\ ret'.some) =>
            ret'.val \in Replies ]_vars

C19_Witness ==
    /\ pc = "api"
    /\ api.attempt = 2 /\ api.sent = 2
    /\ api.full_response \in PartialDeltas

\* C20: in one-shot and in interactive mode, when handle_response starts
\* on a reply, that reply is the last message of the main conversation.
C20_ReplyIsLastMessage ==
    pc = "hr_entry" =>
        messages[Len(messages)] = Msg("assistant", ai_response.val)

=============================================================================
